---- MODULE Spec2Model ----
(***************************************************************************)
(* wiki2docx: the fetch-and-convert pipeline of main (flag merge, limiter  *)
(* set-up, title collection, worker pool, report) together with the wiki   *)
(* package's rate limiter, FetchArticle and GetRandomTitles, and package    *)
(* docx: safeFilename, the paragraph split, the document and the archive   *)
(* that writeDocx writes through a buffering zip writer.                   *)
(*                                                                         *)
(* Process 0 is the main goroutine, processes 1..MaxWorkers are the worker *)
(* goroutines started by main.  The remote service, the ticker behind      *)
(* time.Tick and the file system are the environment: their answers are    *)
(* drawn with \E from small sets.  A call that has been sent and never     *)
(* answered is a process that stays at pc = "do".                          *)
(***************************************************************************)
EXTENDS Integers, Sequences, FiniteSets, TLC

\* ------------------------------------------------------------------ bounds
MaxWorkers == 2        \* largest worker count tried
MaxTitles  == 2        \* longest title list read from a file
MaxLimit   == 2        \* largest -random value tried
MaxBatch   == 2        \* longest batch the endpoint answers with
MaxDropped == 1        \* ticks the ticker drops on a full channel
MaxTitleLen   == 3     \* characters tried after a title's padding
MaxContentLen == 5     \* longest content tried, besides the example

\* Two titles that sanitize to the same file name.
Titles == {"A/B", "A:B"}

\* ------------------------------------------------------- program constants
Second           == 1000000000   \* time.Second, in nanoseconds
TimeoutSeconds   == 30           \* http.DefaultClient.Timeout = 30 * time.Second
MaxBatchSize     == 500          \* batchSize cap of GetRandomTitles
AttemptFactor    == 3            \* maxAttempts := limit * 3
DefaultRandom    == 1            \* flag default of -random
TruncLimit       == 200          \* safeFilename: if len(s) > 200 { s = s[:200] }

Main    == 0
Workers == 1..MaxWorkers
Procs   == 0..MaxWorkers

\* Values of -rate that are tried: below zero, zero, a rate that does not
\* divide a second, and a rate above one request per nanosecond.
RateValues == {-1, 0, 3, 2 * Second}

\* Values of -lang: a host label, and one that makes the URL unparsable.
LangValues == {"en", "e n"}

Min(a, b) == IF a <= b THEN a ELSE b

RECURSIVE SeqsUpTo(_, _)
\* all sequences over S of length 0..n
SeqsUpTo(S, n) ==
  IF n = 0 THEN {<<>>}
  ELSE LET shorter == SeqsUpTo(S, n - 1)
       IN  shorter \cup {Append(s, x) : s \in {t \in shorter : Len(t) = n - 1}, x \in S}

Range(s) == {s[i] : i \in 1..Len(s)}

\* ------------------------------------------------------------ package docx
\* Strings of package docx are sequences of one-character strings.
\* Chars(t) is the character sequence of a title of the pool.
Chars(t) ==
  CASE t = "A/B" -> <<"A", "/", "B">>
    [] t = "A:B" -> <<"A", ":", "B">>
    [] t = "R"   -> <<"R">>
    [] OTHER     -> <<>>

\* var unsafeChars = regexp.MustCompile(`[\\/:*?"<>| ]+`): the character class
UnsafeChars == {"\\", "/", ":", "*", "?", "\"", "<", ">", "|", " "}

\* unsafeChars.ReplaceAllString(title, "_"): every maximal run of unsafe
\* characters becomes one underscore, that is, the first character of a run
\* is replaced and the others of the run are removed.
ReplaceAllUnsafe(s) ==
  LET marked == [i \in 1..Len(s) |->
                   IF s[i] \notin UnsafeChars THEN s[i]
                   ELSE IF i > 1 /\ s[i - 1] \in UnsafeChars THEN "" ELSE "_"]
  IN  SelectSeq(marked, LAMBDA c : c # "")

\* the positions of s whose character is not in cutset
Kept(s, cutset) == {i \in 1..Len(s) : s[i] \notin cutset}
First(S) == CHOOSE i \in S : \A j \in S : i <= j
Last(S)  == CHOOSE i \in S : \A j \in S : j <= i

\* strings.TrimLeft(s, cutset) and strings.TrimRight(s, cutset)
TrimLeft(s, cutset) ==
  IF Kept(s, cutset) = {} THEN <<>> ELSE SubSeq(s, First(Kept(s, cutset)), Len(s))
TrimRight(s, cutset) ==
  IF Kept(s, cutset) = {} THEN <<>> ELSE SubSeq(s, 1, Last(Kept(s, cutset)))

\* strings.Trim(s, cutset)
Trim(s, cutset) == TrimRight(TrimLeft(s, cutset), cutset)

\* if len(s) > 200 { s = s[:200] }
Truncate(s) == IF Len(s) > TruncLimit THEN SubSeq(s, 1, TruncLimit) ELSE s

\* safeFilename(title): replace, trim the underscores, truncate.
safeFilename(t) == Truncate(Trim(ReplaceAllUnsafe(t), {"_"}))

\* the characters unicode.IsSpace holds for, among those that are tried
WhiteSpace == {" ", "\n", "\t", "\r"}

\* A TrimSpace that leaves its argument as it is.
TrimSpace_Identity(s) == s

\* strings.TrimSpace(chunk)
TrimSpace(s) == Trim(s, WhiteSpace)

RECURSIVE SplitFrom(_, _)
\* strings.Split(content, "\n\n") from the left: cur is the chunk being read;
\* every non-overlapping "\n\n", leftmost first, ends a chunk.
SplitFrom(s, cur) ==
  IF s = <<>> THEN <<cur>>
  ELSE IF Len(s) >= 2 /\ s[1] = "\n" /\ s[2] = "\n"
         THEN <<cur>> \o SplitFrom(SubSeq(s, 3, Len(s)), <<>>)
         ELSE SplitFrom(Tail(s), Append(cur, Head(s)))

StringsSplit(s) == SplitFrom(s, <<>>)

\* strings.ReplaceAll(chunk, "\n", " ")
ReplaceNewlines(s) == [i \in 1..Len(s) |-> IF s[i] = "\n" THEN " " ELSE s[i]]

RECURSIVE BodyParagraphs(_)
\* Build's loop over the chunks: trim, skip the empty ones, collapse newlines.
BodyParagraphs(chunks) ==
  IF chunks = <<>> THEN <<>>
  ELSE LET chunk == TrimSpace(Head(chunks))
       IN  IF chunk = <<>>
             THEN BodyParagraphs(Tail(chunks))
             ELSE <<ReplaceNewlines(chunk)>> \o BodyParagraphs(Tail(chunks))

\* Characters that are not in the XML character range: xml.EscapeText writes
\* U+FFFD in their place.  U+0001 stands for them.
IllegalXMLChars == {"U+0001"}

\* xml.EscapeText, one character
EscapeChar(c) ==
  CASE c = "&"  -> "&amp;"
    [] c = "<"  -> "&lt;"
    [] c = ">"  -> "&gt;"
    [] c = "\"" -> "&#34;"
    [] c = "'"  -> "&#39;"
    [] c = "\t" -> "&#x9;"
    [] c = "\n" -> "&#xA;"
    [] c = "\r" -> "&#xD;"
    [] c \in IllegalXMLChars -> "U+FFFD"
    [] OTHER    -> c

\* xmlEscape(s)
xmlEscape(s) == [i \in 1..Len(s) |-> EscapeChar(s[i])]

\* The markup buildDocumentXML writes, one token per WriteString.
XMLDecl     == "<?xml?>"
DocOpen     == "<w:document>"
BodyOpen    == "<w:body>"
HeadingOpen == "<w:p><w:r><w:rPr><w:b/><w:sz 48/></w:rPr><w:t>"
ParaOpen    == "<w:p><w:pPr><w:jc both/></w:pPr><w:r><w:rPr><w:sz 24/></w:rPr><w:t>"
BlockClose  == "</w:t></w:r></w:p>"
SectPr      == "<w:sectPr/>"
DocClose    == "</w:body></w:document>"

RECURSIVE ParagraphBlocks(_)
\* for _, p := range paragraphs { ... }
ParagraphBlocks(ps) ==
  IF ps = <<>> THEN <<>>
  ELSE <<ParaOpen>> \o xmlEscape(Head(ps)) \o <<BlockClose>>
       \o ParagraphBlocks(Tail(ps))

\* buildDocumentXML(title, paragraphs)
buildDocumentXML(t, ps) ==
  <<XMLDecl, DocOpen, BodyOpen, HeadingOpen>> \o xmlEscape(t) \o <<BlockClose>>
  \o ParagraphBlocks(ps) \o <<SectPr, DocClose>>

contentTypesXML == <<"<Types/>">>
rootRelsXML     == <<"<Relationships/>">>

\* The three entries writeDocx adds, in order.
EntryCount == 3
EntryName(n) ==
  CASE n = 1 -> "[Content_Types].xml"
    [] n = 2 -> "_rels/.rels"
    [] OTHER -> "word/document.xml"
EntryContent(n, t, ps) ==
  CASE n = 1 -> contentTypesXML
    [] n = 2 -> rootRelsXML
    [] OTHER -> buildDocumentXML(t, ps)

\* What the zip writer emits, in units: one per entry (header, data and
\* descriptor), and the central directory, which repeats every entry's name
\* and carries the checksum of its data.
EntryUnit(n, t, ps) == [name |-> EntryName(n), content |-> EntryContent(n, t, ps)]

RECURSIVE DirectoryOf(_)
DirectoryOf(units) ==
  IF units = <<>> THEN <<>>
  ELSE <<Head(units).name>> \o Head(units).content \o DirectoryOf(Tail(units))

DirectoryUnit(units) == [name |-> "central directory", content |-> DirectoryOf(units)]

\* The bytes a file holds where nothing was written (a gap before an offset).
Hole == [name |-> "hole", content |-> <<>>]

\* write(2) of the units us at offset off of a file holding old: the file
\* keeps what lies before and after the written range.
WriteAt(old, off, us) ==
  LET n == IF Len(old) > off + Len(us) THEN Len(old) ELSE off + Len(us)
  IN  [i \in 1..n |->
         IF i > off /\ i <= off + Len(us) THEN us[i - off]
         ELSE IF i <= Len(old) THEN old[i]
         ELSE Hole]

\* The file extension Build appends.
DocxExt == <<".docx">>

\* ------------------------------------------------------------------- state
VARIABLES
  \* flags after flag.Parse and the alias merge
  nWorkers, rate, inputFile, randomN, lang,
  \* package wiki: globals
  langPrefix, rateLimiter, tickBuf, clientTimeout,
  \* the runtime ticker behind time.Tick
  tickInterval, now, dropped,
  \* control
  pc,
  \* main's locals and the pool's shared state
  titles, err, titlesCh, closed, spawned, wg, mu, failed, report,
  \* GetRandomTitles' locals
  uniqueTitles, result, attempts, maxAttempts, batchSize,
  \* each worker's locals
  title, article, perr, snap,
  \* history of the run, read by the properties only
  limiterSet, waited, gated, deadline, requests, lastCall,
  idx, taken, outcome, admitted, lastTick,
  \* history of FetchArticle: the requests sent for each queued title, and
  \* the kind of answer each worker's last call got
  sent, resp,
  \* docx.Build: each caller's parameters and locals, its zip writer, and
  \* the output directory
  build, zw, disk,
  \* history of the Build calls, read by the properties only
  iofail, faulted, built

flagVars   == <<nWorkers, rate, inputFile, randomN, lang>>
wikiVars   == <<langPrefix, rateLimiter, clientTimeout>>
tickVars   == <<tickBuf, tickInterval, now, dropped>>
mainVars   == <<titles, err, titlesCh, closed, spawned, wg, mu, failed, report>>
randVars   == <<uniqueTitles, result, attempts, maxAttempts, batchSize>>
workerVars == <<title, article, perr, snap>>
callVars   == <<waited, gated, deadline>>
histVars   == <<limiterSet, requests, lastCall, idx, taken, outcome,
                admitted, lastTick>>
fetchHist  == <<sent, resp>>
docxVars   == <<build, zw, disk, iofail, faulted, built>>
poolVars   == <<flagVars, wikiVars, tickVars, mainVars, randVars, workerVars,
                callVars, histVars, fetchHist>>
vars == <<flagVars, wikiVars, tickVars, pc, mainVars, randVars, workerVars,
          callVars, histVars, fetchHist, docxVars>>

\* ----------------------------------------------------------- flag handling
\* "Merge aliases": -worker overrides -workers when non-zero, -w overrides both.
MergeAliases(workers, workerAlias, wAlias) ==
  IF wAlias # 0 THEN wAlias
  ELSE IF workerAlias # 0 THEN workerAlias
  ELSE workers

WorkerFlagValues == -1..MaxWorkers

\* Package globals, main's locals and the history, before main's first step.
InitGlobals ==
  /\ langPrefix = "en"
  /\ rateLimiter = "nil"
  /\ clientTimeout = [c \in {"DefaultClient", "wikiClient"} |-> 0]
  /\ tickBuf = <<>> /\ tickInterval = 0 /\ now = 0 /\ dropped = 0
  /\ titles = <<>> /\ err = "nil" /\ titlesCh = <<>> /\ closed = FALSE
  /\ spawned = 0 /\ wg = 0 /\ mu = 0 /\ failed = <<>>
  /\ report = [succeeded |-> -1, failed |-> -1, lines |-> <<>>]
  /\ uniqueTitles = {} /\ result = <<>> /\ attempts = 0 /\ maxAttempts = 0
  /\ batchSize = 0
  /\ title = [w \in Workers |-> ""]
  /\ article = [w \in Workers |-> ""]
  /\ perr = [w \in Workers |-> "nil"]
  /\ snap = [w \in Workers |-> <<>>]
  /\ limiterSet = FALSE
  /\ waited = [p \in Procs |-> FALSE]
  /\ gated = [p \in Procs |-> FALSE]
  /\ deadline = [p \in Procs |-> 0]
  /\ requests = 0 /\ lastCall = "none"
  /\ idx = [w \in Workers |-> 0]
  /\ taken = <<>> /\ outcome = <<>>
  /\ admitted = 0 /\ lastTick = 0

\* A worker that is not holding the answer to a request.
NoResponse == "none"

\* A caller that is not inside docx.Build, and a zip writer before its first
\* entry: nothing buffered, file offset 0, no entry, no write error so far.
NoCall   == [title |-> <<>>, content |-> <<>>, bodyParagraphs |-> <<>>,
             outPath |-> <<>>, err |-> "nil"]
NoWriter == [buf |-> <<>>, off |-> 0, n |-> 0, err |-> FALSE]
NoFiles  == [f \in {} |-> <<>>]

\* The state after construction of everything but the flags and the control.
InitState ==
  /\ InitGlobals
  /\ sent = <<>>
  /\ resp = [w \in Workers |-> NoResponse]
  /\ build = [w \in Workers |-> NoCall]
  /\ zw = [w \in Workers |-> NoWriter]
  /\ disk = NoFiles
  /\ iofail = [w \in Workers |-> FALSE]
  /\ faulted = {}
  /\ built = {}

Init ==
  /\ \E f \in WorkerFlagValues, a \in WorkerFlagValues, b \in WorkerFlagValues :
        nWorkers = MergeAliases(f, a, b)
  /\ rate \in RateValues
  /\ lang \in LangValues
  /\ inputFile \in BOOLEAN
  /\ randomN \in (IF inputFile THEN {DefaultRandom} ELSE -1..MaxLimit)
  /\ pc = [p \in Procs |-> IF p = Main THEN "SetLanguage" ELSE "idle"]
  /\ InitState

\* -------------------------------------------------------- the rate limiter
\* time.Tick(d): a channel with a buffer of one tick, or nil when d <= 0.
TimeTick(d) ==
  IF d <= 0 THEN [ch |-> "nil", d |-> 0] ELSE [ch |-> "chan", d |-> d]

\* A limiter that treats a rate of zero or less as one request per second.
NewRateLimiter_ClampsToOne(rps) ==
  TimeTick(Second \div (IF rps <= 0 THEN 1 ELSE rps))

\* wiki.SetRateLimit(rps): nil for rps <= 0, else time.Tick(time.Second / rps),
\* an integer division of nanoseconds.
NewRateLimiter(rps) ==
  IF rps <= 0 THEN [ch |-> "nil", d |-> 0] ELSE TimeTick(Second \div rps)

\* http.NewRequest fails on a URL whose host does not parse.
ValidURL(prefix) == prefix # "e n"

\* wikiClient.Do(req): the overall timeout that applies to the call is the
\* Timeout field of the client the call is made on.
CallTimeout == clientTimeout["wikiClient"]

Finished == pc[Main] \in {"done", "fatal"}

\* wiki.SetLanguage(*lang)
SetLanguage ==
  /\ pc[Main] = "SetLanguage"
  /\ langPrefix' = lang
  /\ pc' = [pc EXCEPT ![Main] = "SetRateLimit"]
  /\ UNCHANGED <<docxVars, fetchHist, flagVars, rateLimiter, clientTimeout, tickVars, mainVars,
                 randVars, workerVars, callVars, histVars>>

\* wiki.SetRateLimit(*rateLimit)
SetRateLimit ==
  /\ pc[Main] = "SetRateLimit"
  /\ LET l == NewRateLimiter(rate)
     IN  /\ rateLimiter' = l.ch
         /\ tickInterval' = l.d
  /\ tickBuf' = <<>> /\ now' = 0 /\ dropped' = 0
  /\ limiterSet' = TRUE
  /\ pc' = [pc EXCEPT ![Main] = "SetTimeout"]
  /\ UNCHANGED <<docxVars, fetchHist, flagVars, langPrefix, clientTimeout, mainVars, randVars,
                 workerVars, callVars, requests, lastCall, idx, taken, outcome,
                 admitted, lastTick>>

\* http.DefaultClient.Timeout = 30 * time.Second
SetTimeout ==
  /\ pc[Main] = "SetTimeout"
  /\ clientTimeout' = [clientTimeout EXCEPT !["DefaultClient"] = TimeoutSeconds]
  /\ pc' = [pc EXCEPT ![Main] = "collectTitles"]
  /\ UNCHANGED <<docxVars, fetchHist, flagVars, langPrefix, rateLimiter, tickVars, mainVars,
                 randVars, workerVars, callVars, histVars>>

\* The runtime ticker: every interval it sends the tick's time on the channel,
\* and drops the tick when the one-slot buffer is full.  Time is counted in
\* intervals since the limiter was built.
Tick ==
  /\ rateLimiter = "chan"
  /\ ~Finished
  /\ now' = now + 1
  /\ IF tickBuf = <<>>
       THEN tickBuf' = <<now + 1>> /\ dropped' = dropped
       ELSE dropped < MaxDropped /\ dropped' = dropped + 1 /\ tickBuf' = tickBuf
  /\ UNCHANGED <<docxVars, fetchHist, flagVars, wikiVars, tickInterval, pc, mainVars, randVars,
                 workerVars, callVars, histVars>>

\* Callers that build and send the request without calling wait().
BeforeRequest_SkipsWait == "request"

\* Both FetchArticle and GetRandomTitles call wait() before they build and
\* send a request.
BeforeRequest == "wait"

\* wait(), the test: a nil limiter returns at once, otherwise the caller goes
\* on to receive from the channel.
WaitEnter(p) ==
  /\ pc[p] = "wait"
  /\ IF rateLimiter # "nil"
       THEN /\ pc' = [pc EXCEPT ![p] = "recv"]
            /\ UNCHANGED <<waited, admitted>>
       ELSE /\ pc' = [pc EXCEPT ![p] = "request"]
            /\ waited' = [waited EXCEPT ![p] = TRUE]
            /\ admitted' = admitted + 1
  /\ UNCHANGED <<docxVars, fetchHist, flagVars, wikiVars, tickVars, mainVars, randVars, workerVars,
                 gated, deadline, limiterSet, requests, lastCall, idx, taken,
                 outcome, lastTick>>

\* A receive that leaves the tick in the channel for the next caller.
AfterReceive_KeepsTick(buf) == buf

\* What a receive leaves in the ticker's channel.
AfterReceive(buf) == Tail(buf)

\* wait(), the receive <-rateLimiter: blocks until a tick is buffered and
\* takes it out of the channel.
WaitRecv(p) ==
  /\ pc[p] = "recv"
  /\ tickBuf # <<>>
  /\ tickBuf' = AfterReceive(tickBuf)
  /\ admitted' = admitted + 1
  /\ lastTick' = Head(tickBuf)
  /\ waited' = [waited EXCEPT ![p] = TRUE]
  /\ pc' = [pc EXCEPT ![p] = "request"]
  /\ UNCHANGED <<docxVars, fetchHist, flagVars, wikiVars, tickInterval, now, dropped, mainVars,
                 randVars, workerVars, gated, deadline, limiterSet, requests,
                 lastCall, idx, taken, outcome>>

\* ------------------------------------------------------- title collection
\* An inner loop that takes every new title of the batch, without the break.
RECURSIVE AddBatch_NoBreak(_, _, _, _)
AddBatch_NoBreak(batch, uniq, res, limit) ==
  IF batch = <<>> THEN [uniq |-> uniq, res |-> res]
  ELSE LET r == Head(batch)
       IN  IF r \notin uniq
             THEN AddBatch_NoBreak(Tail(batch), uniq \cup {r}, Append(res, r), limit)
             ELSE AddBatch_NoBreak(Tail(batch), uniq, res, limit)

\* The inner loop of GetRandomTitles over one decoded batch: a title not yet
\* in uniqueTitles is added to the set and appended to result, and the loop
\* breaks once result holds limit titles.
RECURSIVE AddBatch(_, _, _, _)
AddBatch(batch, uniq, res, limit) ==
  IF batch = <<>> THEN [uniq |-> uniq, res |-> res]
  ELSE LET r == Head(batch)
       IN  IF r \notin uniq
             THEN LET u2 == uniq \cup {r}
                      r2 == Append(res, r)
                  IN  IF Len(r2) >= limit
                        THEN [uniq |-> u2, res |-> r2]
                        ELSE AddBatch(Tail(batch), u2, r2, limit)
             ELSE AddBatch(Tail(batch), uniq, res, limit)

\* A loop that goes on for as long as titles are missing.
RandContinue_NoAttemptBound(uniq, att, maxAtt, limit) ==
  Cardinality(uniq) < limit

\* A loop that gives up one attempt before the bound.
RandContinue_StopsEarly(uniq, att, maxAtt, limit) ==
  Cardinality(uniq) < limit /\ att < maxAtt - 1

\* The loop condition of GetRandomTitles.
RandContinue(uniq, att, maxAtt, limit) ==
  Cardinality(uniq) < limit /\ att < maxAtt

\* GetRandomTitles returns (res, e) to collectTitles and on to main.
RandReturn(res, e) ==
  /\ titles' = res
  /\ err' = e
  /\ uniqueTitles' = {} /\ result' = <<>> /\ attempts' = 0
  /\ maxAttempts' = 0 /\ batchSize' = 0
  /\ pc' = [pc EXCEPT ![Main] = "collected"]

\* collectTitles: readTitlesFromFile when -input is set (the file yields an
\* error or a list of titles, duplicates kept), else GetRandomTitles(randomN)
\* up to its loop.
CollectTitles ==
  /\ pc[Main] = "collectTitles"
  /\ IF inputFile
       THEN /\ \E r \in {[t |-> l, e |-> "nil"] : l \in SeqsUpTo(Titles, MaxTitles)}
                        \cup {[t |-> <<>>, e |-> "open file"]} :
                 titles' = r.t /\ err' = r.e
            /\ pc' = [pc EXCEPT ![Main] = "collected"]
            /\ UNCHANGED randVars
       ELSE /\ uniqueTitles' = {} /\ result' = <<>> /\ attempts' = 0
            /\ maxAttempts' = randomN * AttemptFactor
            /\ batchSize' = 0
            /\ pc' = [pc EXCEPT ![Main] = "rand_loop"]
            /\ UNCHANGED <<titles, err>>
  /\ UNCHANGED <<docxVars, fetchHist, flagVars, wikiVars, tickVars, titlesCh, closed, spawned, wg,
                 mu, failed, report, workerVars, callVars, histVars>>

\* GetRandomTitles: the loop test, attempts++, batchSize, up to the call of wait().
RandLoop ==
  /\ pc[Main] = "rand_loop"
  /\ IF RandContinue(uniqueTitles, attempts, maxAttempts, randomN)
       THEN /\ attempts' = attempts + 1
            /\ batchSize' = Min(randomN - Cardinality(uniqueTitles), MaxBatchSize)
            /\ pc' = [pc EXCEPT ![Main] = BeforeRequest]
            /\ UNCHANGED <<titles, err, uniqueTitles, result, maxAttempts>>
       ELSE RandReturn(result, "nil")
  /\ UNCHANGED <<docxVars, fetchHist, flagVars, wikiVars, tickVars, titlesCh, closed, spawned, wg,
                 mu, failed, report, workerVars, callVars, histVars>>

\* GetRandomTitles: http.NewRequest and the start of wikiClient.Do.
RandRequest ==
  /\ pc[Main] = "request"
  /\ waited' = [waited EXCEPT ![Main] = FALSE]
  /\ IF ValidURL(langPrefix)
       THEN /\ pc' = [pc EXCEPT ![Main] = "do"]
            /\ gated' = [gated EXCEPT ![Main] = waited[Main]]
            /\ deadline' = [deadline EXCEPT ![Main] = CallTimeout]
            /\ requests' = requests + 1
            /\ lastCall' = "sent"
            /\ UNCHANGED <<titles, err, randVars>>
       ELSE /\ RandReturn(result, "new request")
            /\ lastCall' = "failed"
            /\ UNCHANGED <<gated, deadline, requests>>
  /\ UNCHANGED <<docxVars, fetchHist, flagVars, wikiVars, tickVars, titlesCh, closed, spawned, wg,
                 mu, failed, report, workerVars, limiterSet, idx, taken,
                 outcome, admitted, lastTick>>

\* What wikiClient.Do can come back with: a transport error (a timeout is
\* one, for a call that has a deadline d), or a response with a status code
\* and a body that is JSON or not.
TransportErrors(d) == {"transport"} \cup (IF d > 0 THEN {"timeout"} ELSE {})

Response(e, code, json, items) ==
  [err |-> e, code |-> code, json |-> json, items |-> items]

Responses(d, Items) ==
  {Response(e, 0, FALSE, <<>>) : e \in TransportErrors(d)}
  \cup {Response("nil", 500, TRUE, <<>>), Response("nil", 200, FALSE, <<>>)}
  \cup {Response("nil", 200, TRUE, i) : i \in Items}

\* The error checks both functions make on the answer, in the code's order:
\* the transport error, the status code, the JSON decoding.
ResponseError(r) ==
  IF r.err # "nil" THEN r.err
  ELSE IF r.code # 200 THEN "API returned status"
  ELSE IF ~r.json THEN "decode"
  ELSE "nil"

\* GetRandomTitles: the answer to one batch request.  A transport error, a
\* non-200 status and an undecodable body return result with the error; an
\* empty batch breaks the loop; any other batch is merged into result.
RandDoReturn ==
  /\ pc[Main] = "do"
  /\ \E r \in Responses(deadline[Main], SeqsUpTo(Titles, MaxBatch)) :
       IF ResponseError(r) # "nil"
         THEN RandReturn(result, ResponseError(r)) /\ lastCall' = "failed"
         ELSE IF Len(r.items) = 0
           THEN RandReturn(result, "nil") /\ lastCall' = "empty"
           ELSE LET m == AddBatch(r.items, uniqueTitles, result, randomN)
                IN  /\ uniqueTitles' = m.uniq
                    /\ result' = m.res
                    /\ lastCall' = "batch"
                    /\ pc' = [pc EXCEPT ![Main] = "rand_loop"]
                    /\ UNCHANGED <<titles, err, attempts, maxAttempts, batchSize>>
  /\ deadline' = [deadline EXCEPT ![Main] = 0]
  /\ gated' = [gated EXCEPT ![Main] = FALSE]
  /\ UNCHANGED <<docxVars, fetchHist, flagVars, wikiVars, tickVars, titlesCh, closed, spawned, wg,
                 mu, failed, report, workerVars, waited, limiterSet, requests,
                 idx, taken, outcome, admitted, lastTick>>

\* main after collectTitles: log.Fatalf on an error, log.Fatal on no titles.
\* The history of GetRandomTitles' requests ends here.
Collected ==
  /\ pc[Main] = "collected"
  /\ pc' = [pc EXCEPT ![Main] =
              IF err # "nil" \/ Len(titles) = 0 THEN "fatal" ELSE "fill"]
  /\ requests' = 0 /\ lastCall' = "none"
  /\ UNCHANGED <<docxVars, fetchHist, flagVars, wikiVars, tickVars, mainVars, randVars, workerVars,
                 callVars, limiterSet, idx, taken, outcome, admitted, lastTick>>

\* ------------------------------------------------------------ worker pool
\* A job queue made without a buffer.
Capacity_Unbuffered(ts) == 0

\* titlesCh := make(chan string, len(titles)): the queue's capacity
Capacity(ts) == Len(ts)

\* titlesCh := make(chan string, len(titles)); every title is sent; close.
\* A send on a full queue that nobody receives from blocks main for good.
Fill ==
  /\ pc[Main] = "fill"
  /\ IF Len(titles) <= Capacity(titles)
       THEN /\ titlesCh' = titles
            /\ closed' = TRUE
            /\ pc' = [pc EXCEPT ![Main] = "spawn"]
       ELSE /\ titlesCh' = SubSeq(titles, 1, Capacity(titles))
            /\ closed' = FALSE
            /\ pc' = [pc EXCEPT ![Main] = "send"]
  /\ taken' = [i \in 1..Len(titles) |-> 0]
  /\ outcome' = [i \in 1..Len(titles) |-> "none"]
  /\ sent' = [i \in 1..Len(titles) |-> 0]
  /\ UNCHANGED <<docxVars, resp, flagVars, wikiVars, tickVars, titles, err, spawned, wg, mu,
                 failed, report, randVars, workerVars, callVars, limiterSet,
                 requests, lastCall, idx, admitted, lastTick>>

\* for i := 0; i < *nWorkers; i++ { wg.Add(1); go func() {...}() }
Spawn ==
  /\ pc[Main] = "spawn"
  /\ IF spawned < nWorkers
       THEN /\ wg' = wg + 1
            /\ spawned' = spawned + 1
            /\ pc' = [pc EXCEPT ![spawned + 1] = "range"]
       ELSE /\ pc' = [pc EXCEPT ![Main] = "wgWait"]
            /\ UNCHANGED <<wg, spawned>>
  /\ UNCHANGED <<docxVars, fetchHist, flagVars, wikiVars, tickVars, titles, err, titlesCh, closed,
                 mu, failed, report, randVars, workerVars, callVars, histVars>>

\* wg.Wait()
WgWait ==
  /\ pc[Main] = "wgWait"
  /\ wg = 0
  /\ pc' = [pc EXCEPT ![Main] = "report"]
  /\ UNCHANGED <<docxVars, fetchHist, flagVars, wikiVars, tickVars, mainVars, randVars, workerVars,
                 callVars, histVars>>

\* "Done. %d succeeded, %d failed." and one ERROR line per entry of failed.
Report ==
  /\ pc[Main] = "report"
  /\ report' = [succeeded |-> Len(titles) - Len(failed),
                failed    |-> Len(failed),
                lines     |-> failed]
  /\ pc' = [pc EXCEPT ![Main] = "done"]
  /\ UNCHANGED <<docxVars, fetchHist, flagVars, wikiVars, tickVars, titles, err, titlesCh, closed,
                 spawned, wg, mu, failed, randVars, workerVars, callVars,
                 histVars>>

\* What a receive leaves in the job queue.
AfterTake(ch) == Tail(ch)

\* for title := range titlesCh: take the next title and call processArticle
\* up to FetchArticle's wait(); on the closed, empty channel leave the loop
\* and run the deferred wg.Done().
RangeTitles(w) ==
  /\ pc[w] = "range"
  /\ IF titlesCh # <<>>
       THEN /\ title' = [title EXCEPT ![w] = Head(titlesCh)]
            /\ titlesCh' = AfterTake(titlesCh)
            /\ LET i == Len(titles) - Len(titlesCh) + 1
               IN  /\ idx' = [idx EXCEPT ![w] = i]
                   /\ taken' = [taken EXCEPT ![i] = @ + 1]
            /\ pc' = [pc EXCEPT ![w] = BeforeRequest]
            /\ wg' = wg
       ELSE /\ closed
            /\ pc' = [pc EXCEPT ![w] = "exited"]
            /\ wg' = wg - 1
            /\ UNCHANGED <<title, titlesCh, idx, taken>>
  /\ UNCHANGED <<docxVars, fetchHist, flagVars, wikiVars, tickVars, titles, err, closed, spawned,
                 mu, failed, report, randVars, article, perr, snap, callVars,
                 limiterSet, requests, lastCall, outcome, admitted, lastTick>>

\* A pool whose workers go on to the next title without recording an error.
AfterProcess_DropsFailure(e) == "range"

\* A pool whose worker returns from its goroutine when a title fails.
AfterProcess_Aborts(e) == IF e # "nil" THEN "exited" ELSE "range"

\* Where the worker goes when processArticle has returned e: to the lock when
\* e is an error, back to the range loop otherwise.
AfterProcess(e) == IF e # "nil" THEN "lock" ELSE "range"

\* fmt.Errorf(prefix + ": %w", e): the pool keeps the wrapping prefix of an
\* error, which says whether the fetch or the build failed.
Wrap(prefix, e) == IF e = "nil" THEN "nil" ELSE prefix

\* The kinds of answer: "page" when the transport succeeded, the status is
\* 200, the body parsed and the page map holds a page; "error" otherwise.
AnswerKind(r) ==
  IF r.err = "nil" /\ r.code = 200 /\ r.json /\ r.items # <<>> THEN "page"
                                                              ELSE "error"

\* A FetchArticle that answers an empty page map with an empty article of
\* the title asked for.
FetchResult_EmptyArticle(r, t) ==
  IF ResponseError(r) # "nil" THEN [title |-> "", err |-> ResponseError(r)]
  ELSE IF r.items = <<>> THEN [title |-> t, err |-> "nil"]
  ELSE [title |-> Head(r.items), err |-> "nil"]

\* FetchArticle's result for the answer r to a request for title t: the
\* error of the answer, a not-found error on an empty page map, else the
\* first page's title.
FetchResult(r, t) ==
  IF ResponseError(r) # "nil" THEN [title |-> "", err |-> ResponseError(r)]
  ELSE IF r.items = <<>> THEN [title |-> "", err |-> "article not found"]
  ELSE [title |-> Head(r.items), err |-> "nil"]

\* processArticle returns e to the worker's loop body.
ProcessReturn(w, e) ==
  /\ perr' = [perr EXCEPT ![w] = e]
  /\ outcome' = [outcome EXCEPT ![idx[w]] = IF e # "nil" THEN "fail" ELSE "ok"]
  /\ pc' = [pc EXCEPT ![w] = AfterProcess(e)]

\* FetchArticle: http.NewRequest and the start of wikiClient.Do.
FetchRequest(w) ==
  /\ pc[w] = "request"
  /\ w \in Workers
  /\ waited' = [waited EXCEPT ![w] = FALSE]
  /\ IF ValidURL(langPrefix)
       THEN /\ pc' = [pc EXCEPT ![w] = "do"]
            /\ gated' = [gated EXCEPT ![w] = waited[w]]
            /\ deadline' = [deadline EXCEPT ![w] = CallTimeout]
            /\ sent' = [sent EXCEPT ![idx[w]] = @ + 1]
            /\ UNCHANGED <<perr, outcome>>
       ELSE /\ ProcessReturn(w, Wrap("fetch", "new request"))
            /\ UNCHANGED <<gated, deadline, sent>>
  /\ UNCHANGED <<docxVars, resp, flagVars, wikiVars, tickVars, mainVars, randVars, title,
                 article, snap, limiterSet, requests, lastCall, idx, taken,
                 admitted, lastTick>>

\* The title of the page a redirecting title resolves to.
Redirected == "R"

\* FetchArticle: the answer to the request (the page map holds no page, the
\* page asked for, or the page a redirect resolves to).  On an error
\* processArticle returns it wrapped; otherwise it goes on to docx.Build.
FetchDoReturn(w) ==
  /\ pc[w] = "do"
  /\ w \in Workers
  /\ \E r \in Responses(deadline[w], {<<>>, <<title[w]>>, <<Redirected>>}) :
       LET a == FetchResult(r, title[w])
       IN  /\ resp' = [resp EXCEPT ![w] = AnswerKind(r)]
           /\ IF a.err # "nil"
                THEN /\ ProcessReturn(w, Wrap("fetch", a.err))
                     /\ UNCHANGED article
                ELSE /\ article' = [article EXCEPT ![w] = a.title]
                     /\ pc' = [pc EXCEPT ![w] = "build"]
                     /\ UNCHANGED <<perr, outcome>>
  /\ deadline' = [deadline EXCEPT ![w] = 0]
  /\ gated' = [gated EXCEPT ![w] = FALSE]
  /\ UNCHANGED <<docxVars, sent, flagVars, wikiVars, tickVars, mainVars, randVars, title, snap,
                 waited, limiterSet, requests, lastCall, idx, taken, admitted,
                 lastTick>>

\* docx.Build(article.Title, article.Content, outDir): nil or an I/O error.
Build(w) ==
  /\ pc[w] = "build"
  /\ \E e \in {"nil", "save docx"} : ProcessReturn(w, Wrap("build docx", e))
  /\ article' = [article EXCEPT ![w] = ""]
  /\ resp' = [resp EXCEPT ![w] = NoResponse]
  /\ UNCHANGED <<docxVars, sent, flagVars, wikiVars, tickVars, mainVars, randVars, title, snap,
                 callVars, limiterSet, requests, lastCall, idx, taken, admitted,
                 lastTick>>

\* ------------------------------------------------- docx.Build, step by step
\* The extract the service holds for a page.
Extract(t) == <<"x", "\n", "\n", "y">>

\* processArticle calls docx.Build(article.Title, article.Content, outDir).
BuildEnter(w) ==
  /\ pc[w] = "build"
  /\ build' = [build EXCEPT ![w] = [NoCall EXCEPT !.title = Chars(article[w]),
                                                 !.content = Extract(article[w])]]
  /\ pc' = [pc EXCEPT ![w] = "mkdir"]
  /\ UNCHANGED <<poolVars, zw, disk, iofail, faulted, built>>

\* os.MkdirAll(outDir), then the paragraphs and the output path.
BuildMkdir(w) ==
  /\ pc[w] = "mkdir"
  /\ \E ok \in BOOLEAN :
       IF ok
         THEN /\ build' = [build EXCEPT
                    ![w].bodyParagraphs = BodyParagraphs(StringsSplit(build[w].content)),
                    ![w].outPath = safeFilename(build[w].title) \o DocxExt]
              /\ pc' = [pc EXCEPT ![w] = "create"]
              /\ UNCHANGED iofail
         ELSE /\ build' = [build EXCEPT ![w].err = "create output dir"]
              /\ iofail' = [iofail EXCEPT ![w] = TRUE]
              /\ pc' = [pc EXCEPT ![w] = "buildret"]
  /\ UNCHANGED <<poolVars, zw, disk, faulted, built>>

\* The archive a Build call of title t and paragraphs ps writes when nothing
\* fails and nobody else writes the file.
AllEntries(t, ps) == [n \in 1..EntryCount |-> EntryUnit(n, t, ps)]
Archive(t, ps) == Append(AllEntries(t, ps), DirectoryUnit(AllEntries(t, ps)))

\* writeDocx: os.Create(path) creates the file or truncates it, and opens it
\* with an offset of its own; zip.NewWriter(f) buffers what is written.
BuildCreate(w) ==
  /\ pc[w] = "create"
  /\ \E ok \in BOOLEAN :
       IF ok
         THEN /\ disk' = (build[w].outPath :> <<>>) @@ disk
              /\ zw' = [zw EXCEPT ![w] = NoWriter]
              /\ built' = built \cup
                   {[path |-> build[w].outPath,
                     archive |-> Archive(build[w].title, build[w].bodyParagraphs)]}
              /\ pc' = [pc EXCEPT ![w] = "addfile"]
              /\ UNCHANGED <<build, iofail>>
         ELSE /\ build' = [build EXCEPT ![w].err = "save docx"]
              /\ iofail' = [iofail EXCEPT ![w] = TRUE]
              /\ pc' = [pc EXCEPT ![w] = "buildret"]
              /\ UNCHANGED <<disk, zw, built>>
  /\ UNCHANGED <<poolVars, faulted>>

\* What writeDocx returns after addFile: the wrapped error when the write
\* behind it failed.
AddFileError(written) == IF written THEN "nil" ELSE "save docx"

\* addFile(name, content): zw.Create(name) and w.Write(content) put the entry
\* into the writer's buffer.  The two manifests always fit; the document may
\* fill the buffer, which is then written to the file at the writer's offset.
\* A failed write makes writeDocx return; the deferred closes still run.
AddFile(w) ==
  /\ pc[w] = "addfile"
  /\ LET n   == zw[w].n + 1
         buf == Append(zw[w].buf,
                       EntryUnit(n, build[w].title, build[w].bodyParagraphs))
     IN  \E flush \in (IF n = EntryCount THEN {"none", "written", "failed"}
                                         ELSE {"none"}) :
           CASE flush = "none" ->
                  /\ zw' = [zw EXCEPT ![w].buf = buf, ![w].n = n]
                  /\ pc' = [pc EXCEPT ![w] = IF n = EntryCount THEN "zwclose"
                                                               ELSE "addfile"]
                  /\ UNCHANGED <<build, disk, iofail>>
             [] flush = "written" ->
                  /\ disk' = [disk EXCEPT ![build[w].outPath] =
                                WriteAt(@, zw[w].off, buf)]
                  /\ zw' = [zw EXCEPT ![w].buf = <<>>, ![w].n = n,
                                      ![w].off = @ + Len(buf)]
                  /\ build' = [build EXCEPT ![w].err = AddFileError(TRUE)]
                  /\ pc' = [pc EXCEPT ![w] = "zwclose"]
                  /\ UNCHANGED iofail
             [] flush = "failed" ->
                  /\ zw' = [zw EXCEPT ![w].buf = buf, ![w].n = n, ![w].err = TRUE]
                  /\ build' = [build EXCEPT ![w].err = AddFileError(FALSE)]
                  /\ iofail' = [iofail EXCEPT ![w] = TRUE]
                  /\ pc' = [pc EXCEPT ![w] = "zwclose"]
                  /\ UNCHANGED disk
  /\ UNCHANGED <<poolVars, faulted, built>>

\* defer zw.Close(): the central directory is added and the buffer is written
\* to the file; after an earlier write error nothing more is written.  The
\* error Close returns is dropped.
ZwClose(w) ==
  /\ pc[w] = "zwclose"
  /\ IF zw[w].err
       THEN UNCHANGED <<zw, disk, iofail>>
       ELSE LET buf == Append(zw[w].buf,
                         DirectoryUnit(AllEntries(build[w].title,
                                                  build[w].bodyParagraphs)))
            IN  \E written \in BOOLEAN :
                  IF written
                    THEN /\ disk' = [disk EXCEPT ![build[w].outPath] =
                                       WriteAt(@, zw[w].off, buf)]
                         /\ zw' = [zw EXCEPT ![w].buf = <<>>,
                                             ![w].off = @ + Len(buf)]
                         /\ UNCHANGED iofail
                    ELSE /\ zw' = [zw EXCEPT ![w].err = TRUE]
                         /\ iofail' = [iofail EXCEPT ![w] = TRUE]
                         /\ UNCHANGED disk
  /\ pc' = [pc EXCEPT ![w] = "fclose"]
  /\ UNCHANGED <<poolVars, build, faulted, built>>

\* defer f.Close(), and Build's return to its caller
FClose(w) ==
  /\ pc[w] = "fclose"
  /\ zw' = [zw EXCEPT ![w] = NoWriter]
  /\ pc' = [pc EXCEPT ![w] = "buildret"]
  /\ UNCHANGED <<poolVars, build, disk, iofail, faulted, built>>

\* processArticle wraps Build's error and returns to the worker's loop body.
BuildReturn(w) ==
  /\ pc[w] = "buildret"
  /\ w \in Workers /\ idx[w] \in DOMAIN outcome
  /\ ProcessReturn(w, Wrap("build docx", build[w].err))
  /\ article' = [article EXCEPT ![w] = ""]
  /\ faulted' = IF iofail[w] THEN faulted \cup {idx[w]} ELSE faulted
  /\ iofail' = [iofail EXCEPT ![w] = FALSE]
  /\ build' = [build EXCEPT ![w] = NoCall]
  /\ resp' = [resp EXCEPT ![w] = NoResponse]
  /\ UNCHANGED <<flagVars, wikiVars, tickVars, mainVars, randVars, title, snap,
                 callVars, limiterSet, requests, lastCall, idx, taken, admitted,
                 lastTick, sent, zw, disk, built>>

\* A mutex that is never seen as held.
Locked_Never(m) == FALSE

\* sync.Mutex: mu holds the worker that has locked it, or 0.
Locked(m) == m # 0

\* mu.Lock()
Lock(w) ==
  /\ pc[w] = "lock"
  /\ ~Locked(mu)
  /\ mu' = w
  /\ pc' = [pc EXCEPT ![w] = "append"]
  /\ resp' = [resp EXCEPT ![w] = NoResponse]
  /\ UNCHANGED <<docxVars, sent, flagVars, wikiVars, tickVars, titles, err, titlesCh, closed,
                 spawned, wg, failed, report, randVars, workerVars, callVars,
                 histVars>>

\* failed = append(failed, ...), the read of the slice
AppendLoad(w) ==
  /\ pc[w] = "append"
  /\ snap' = [snap EXCEPT ![w] = failed]
  /\ pc' = [pc EXCEPT ![w] = "store"]
  /\ UNCHANGED <<docxVars, fetchHist, flagVars, wikiVars, tickVars, mainVars, randVars, title,
                 article, perr, callVars, histVars>>

\* failed = append(failed, fmt.Sprintf("%s: %v", title, err)), the write
AppendStore(w) ==
  /\ pc[w] = "store"
  /\ failed' = Append(snap[w], <<title[w], perr[w]>>)
  /\ snap' = [snap EXCEPT ![w] = <<>>]
  /\ pc' = [pc EXCEPT ![w] = "unlock"]
  /\ UNCHANGED <<docxVars, fetchHist, flagVars, wikiVars, tickVars, titles, err, titlesCh, closed,
                 spawned, wg, mu, report, randVars, title, article, perr,
                 callVars, histVars>>

\* mu.Unlock(), the FAIL line, and back to the range loop
Unlock(w) ==
  /\ pc[w] = "unlock"
  /\ mu' = 0
  /\ perr' = [perr EXCEPT ![w] = "nil"]
  /\ pc' = [pc EXCEPT ![w] = "range"]
  /\ UNCHANGED <<docxVars, fetchHist, flagVars, wikiVars, tickVars, titles, err, titlesCh, closed,
                 spawned, wg, failed, report, randVars, title, article, snap,
                 callVars, histVars>>

\* ------------------------------------------------------------ the program
Next ==
  \/ SetLanguage
  \/ SetRateLimit
  \/ SetTimeout
  \/ Tick
  \/ CollectTitles
  \/ RandLoop
  \/ RandRequest
  \/ RandDoReturn
  \/ Collected
  \/ Fill
  \/ Spawn
  \/ WgWait
  \/ Report
  \/ \E p \in Procs : WaitEnter(p)
  \/ \E p \in Procs : WaitRecv(p)
  \/ \E w \in Workers : RangeTitles(w)
  \/ \E w \in Workers : FetchRequest(w)
  \/ \E w \in Workers : FetchDoReturn(w)
  \/ \E w \in Workers : Build(w)
  \/ \E w \in Workers : Lock(w)
  \/ \E w \in Workers : AppendLoad(w)
  \/ \E w \in Workers : AppendStore(w)
  \/ \E w \in Workers : Unlock(w)

Spec == Init /\ [][Next]_vars

\* One step of main, and one step of worker w.
MainNext ==
  \/ SetLanguage \/ SetRateLimit \/ SetTimeout \/ CollectTitles \/ RandLoop
  \/ WaitEnter(Main) \/ WaitRecv(Main) \/ RandRequest \/ RandDoReturn
  \/ Collected \/ Fill \/ Spawn \/ WgWait \/ Report

WorkerNext(w) ==
  \/ RangeTitles(w) \/ WaitEnter(w) \/ WaitRecv(w) \/ FetchRequest(w)
  \/ FetchDoReturn(w) \/ Build(w) \/ Lock(w) \/ AppendLoad(w)
  \/ AppendStore(w) \/ Unlock(w)

\* Scheduling: the Go scheduler runs every runnable goroutine, the ticker
\* keeps ticking, and (the proviso of the pool's progress claims) every
\* request that was sent is answered and every Build call returns.
Fairness ==
  /\ WF_vars(MainNext)
  /\ WF_vars(Tick)
  /\ \A w \in Workers : WF_vars(WorkerNext(w))

FairSpec == Spec /\ Fairness

\* The program up to the end of title collection.
NextCollect ==
  \/ SetLanguage
  \/ SetRateLimit
  \/ SetTimeout
  \/ Tick
  \/ CollectTitles
  \/ RandLoop
  \/ WaitEnter(Main)
  \/ WaitRecv(Main)
  \/ RandRequest
  \/ RandDoReturn
  \/ Collected

SpecCollect == Init /\ [][NextCollect]_vars

\* The pool in file mode without a limiter, with docx.Build step by step.
InitBuild == Init /\ inputFile /\ rate = 0 /\ lang = "en"

NextBuild ==
  \/ SetLanguage
  \/ SetRateLimit
  \/ SetTimeout
  \/ CollectTitles
  \/ Collected
  \/ Fill
  \/ Spawn
  \/ WgWait
  \/ Report
  \/ \E w \in Workers : RangeTitles(w)
  \/ \E w \in Workers : WaitEnter(w)
  \/ \E w \in Workers : FetchRequest(w)
  \/ \E w \in Workers : FetchDoReturn(w)
  \/ \E w \in Workers : BuildEnter(w)
  \/ \E w \in Workers : BuildMkdir(w)
  \/ \E w \in Workers : BuildCreate(w)
  \/ \E w \in Workers : AddFile(w)
  \/ \E w \in Workers : ZwClose(w)
  \/ \E w \in Workers : FClose(w)
  \/ \E w \in Workers : BuildReturn(w)
  \/ \E w \in Workers : Lock(w)
  \/ \E w \in Workers : AppendLoad(w)
  \/ \E w \in Workers : AppendStore(w)
  \/ \E w \in Workers : Unlock(w)

SpecBuild == InitBuild /\ [][NextBuild]_vars

\* docx.Build called on its own by one caller, for every title and content
\* of the input sets.  A title is some padding followed by a few characters,
\* so that titles on both sides of the truncation limit are tried.
TitleChars   == {"a", "_", "/", " ", "&", "U+0001"}
ContentChars == {"x", "\n", " ", "<"}
Pad(k) == [i \in 1..k |-> "a"]
PadLengths == {0, TruncLimit - 1}
TitleInputs ==
  {Pad(k) \o t : k \in PadLengths, t \in SeqsUpTo(TitleChars, MaxTitleLen)}
ExampleContent == <<"A", "\n", "\n", "B", "\n", "C", "\n", "\n", "\n", "\n", "D">>
ContentInputs == SeqsUpTo(ContentChars, MaxContentLen) \cup {ExampleContent}
BuildInputs ==
  {<<t, ExampleContent>> : t \in TitleInputs}
    \cup {<<<<"a">>, c>> : c \in ContentInputs}
Caller == 1

InitDocx ==
  /\ nWorkers = 1 /\ rate = 0 /\ lang = "en" /\ inputFile = TRUE
  /\ randomN = DefaultRandom
  /\ pc = [p \in Procs |-> IF p = Caller THEN "mkdir" ELSE "idle"]
  /\ InitGlobals
  /\ sent = <<>>
  /\ resp = [w \in Workers |-> NoResponse]
  /\ \E in \in BuildInputs :
       build = [w \in Workers |->
                  IF w = Caller THEN [NoCall EXCEPT !.title = in[1], !.content = in[2]]
                                ELSE NoCall]
  /\ zw = [w \in Workers |-> NoWriter]
  /\ disk = NoFiles
  /\ iofail = [w \in Workers |-> FALSE]
  /\ faulted = {}
  /\ built = {}

NextDocx ==
  \/ \E w \in Workers : BuildMkdir(w)
  \/ \E w \in Workers : BuildCreate(w)
  \/ \E w \in Workers : AddFile(w)
  \/ \E w \in Workers : ZwClose(w)
  \/ \E w \in Workers : FClose(w)

SpecDocx == InitDocx /\ [][NextDocx]_vars

\* ---------------------------------------------------------- the properties
Indices == 1..Len(titles)
NumberOf(o) == Cardinality({i \in DOMAIN outcome : outcome[i] = o})
PoolJoined == pc[Main] = "done"

\* C1: with at least one worker, once all workers have joined and main has
\* reported, the queue is empty, every queued occurrence of a title was taken
\* exactly once and has exactly one outcome, the failure list holds exactly
\* one entry per failed occurrence, carrying its title, and the reported
\* counts are the numbers of successes and failures and add up to the number
\* of titles.
C1_EveryTitleOnce ==
  (PoolJoined /\ nWorkers >= 1) =>
    /\ titlesCh = <<>>
    /\ \A w \in Workers : pc[w] \in {"idle", "exited"}
    /\ \A i \in Indices : taken[i] = 1 /\ outcome[i] \in {"ok", "fail"}
    /\ \A t \in Titles :
         Cardinality({j \in 1..Len(failed) : failed[j][1] = t})
           = Cardinality({i \in Indices : titles[i] = t /\ outcome[i] = "fail"})
    /\ \A j \in 1..Len(failed) : failed[j][2] # "nil"
    /\ report.failed = NumberOf("fail")
    /\ report.succeeded = NumberOf("ok")
    /\ report.succeeded + report.failed = Len(titles)
    /\ report.lines = failed

\* Two workers have each processed one of two occurrences of the same title,
\* one occurrence failed and the other succeeded.
C1_Witness ==
  /\ PoolJoined /\ nWorkers = 2
  /\ Len(titles) = 2 /\ titles[1] = titles[2]
  /\ idx[1] # 0 /\ idx[2] # 0 /\ idx[1] # idx[2]
  /\ report.succeeded = 1 /\ report.failed = 1

\* C2: the pool never runs with no worker: main reaches its report only
\* after it has started at least one worker, with the queue drained and with
\* no title counted as succeeded that no worker processed.
C2_NeverZeroWorkers ==
  PoolJoined =>
    /\ spawned >= 1
    /\ titlesCh = <<>>
    /\ report.succeeded = NumberOf("ok")

\* C3: an error is recorded for its title only and never stops the pool.  In
\* every step: a worker leaves its loop only at the empty queue; the step in
\* which a worker's title fails changes no other process and not the failure
\* list; the failure is appended as one entry carrying that title; and after
\* recording it the worker is back at the head of its loop.  And once a title
\* has failed, the pool still comes to its end with the queue empty and every
\* title processed (every request being answered and every Build returning).
C3_ErrorsDoNotStopPool ==
  /\ [][\A w \in Workers :
          /\ (pc[w] # "exited" /\ pc'[w] = "exited")
               => (pc[w] = "range" /\ titlesCh = <<>>)
          /\ (perr[w] = "nil" /\ perr'[w] # "nil")
               => /\ \A v \in Procs \ {w} : pc'[v] = pc[v]
                  /\ failed' = failed
                  /\ pc'[w] = "lock"
          /\ (pc[w] = "store" /\ pc'[w] # "store")
               => /\ Len(failed') = Len(failed) + 1
                  /\ failed'[Len(failed')] = <<title[w], perr[w]>>
                  /\ \A j \in 1..Len(failed) : failed'[j] = failed[j]
          /\ (pc[w] = "unlock" /\ pc'[w] # "unlock") => pc'[w] = "range"
     ]_vars
  /\ (\E i \in DOMAIN outcome : outcome[i] = "fail")
       ~> (/\ PoolJoined
           /\ titlesCh = <<>>
           /\ \A i \in DOMAIN outcome : outcome[i] # "none")

\* A single worker failed on the first of two titles and then processed the
\* second one successfully.
C3_Witness ==
  /\ PoolJoined /\ nWorkers = 1
  /\ Len(titles) = 2
  /\ outcome = <<"fail", "ok">>
  /\ Len(failed) = 1 /\ failed[1][1] = titles[1]

\* C4: every request that is in flight, a worker's or the title source's,
\* has a positive overall timeout, so that it fails rather than hangs.
C4_EveryCallHasTimeout ==
  \A p \in Procs : pc[p] = "do" => deadline[p] > 0

C6_NoBypass ==
  \A p \in Procs :
    /\ pc[p] = "do" => (gated[p] /\ limiterSet)
    /\ waited[p] => pc[p] = "request"

\* The title source's second batch request is in flight, admitted by a tick.
C6_Witness ==
  /\ ~inputFile /\ rateLimiter = "chan"
  /\ pc[Main] = "do" /\ gated[Main] /\ requests = 2

\* C7: built with a rate of zero or less the limiter is nil: no caller ever
\* waits for a tick, and a caller in wait() can always return.
C7_DisabledNeverBlocks ==
  (limiterSet /\ rate <= 0) =>
    /\ rateLimiter = "nil"
    /\ \A p \in Procs :
         /\ pc[p] # "recv"
         /\ pc[p] = "wait" => ENABLED WaitEnter(p)

\* With a negative rate both workers are in wait() at once, and both have
\* returned from it.
C7_Witness ==
  /\ rate < 0
  /\ pc[1] = "request" /\ pc[2] = "request"
  /\ waited[1] /\ waited[2]

Distinct(s) == \A i, j \in 1..Len(s) : i # j => s[i] # s[j]
RandomMode == ~inputFile
RandomReturned == RandomMode /\ pc[Main] = "collected"
\* the limit as a number of titles: a negative -random asks for none
Limit == IF randomN > 0 THEN randomN ELSE 0

\* C8: whatever batches the endpoint answers with, the titles collected so
\* far, and the titles GetRandomTitles(n) returns, are at most n and pairwise
\* distinct (result and uniqueTitles hold the same titles).
C8_AtMostLimitDistinct ==
  RandomMode =>
    /\ Len(result) <= Limit /\ Distinct(result)
    /\ Range(result) = uniqueTitles
    /\ pc[Main] = "collected" => (Len(titles) <= Limit /\ Distinct(titles))

\* Two titles were asked for and returned, and one of the three batches
\* brought nothing but duplicates.
C8_Witness ==
  /\ RandomReturned /\ randomN = 2
  /\ Len(titles) = 2 /\ requests = 3 /\ err = "nil"

\* C9: GetRandomTitles(n) sends at most 3n batch requests, and prepares or
\* sends a request only while fewer than n titles are collected, the attempt
\* bound is not passed and no earlier request failed or came back empty.
C9_BoundedAttempts ==
  RandomMode =>
    /\ requests <= AttemptFactor * Limit
    /\ attempts <= AttemptFactor * Limit
    /\ pc[Main] \in {"wait", "recv", "request", "do"} =>
         /\ Len(result) < randomN
         /\ attempts <= maxAttempts
         /\ lastCall \in (IF pc[Main] = "do" THEN {"sent"} ELSE {"none", "batch"})
    /\ pc[Main] = "collected" => lastCall \in {"none", "batch", "empty", "failed"}

\* The attempt bound was hit: six requests for two titles found only one.
C9_Witness ==
  /\ RandomReturned /\ randomN = 2
  /\ requests = AttemptFactor * randomN
  /\ Len(titles) = 1 /\ err = "nil" /\ lastCall = "batch"

\* C10 as stated: fewer than n titles are returned only after an empty batch
\* or at the attempt bound, and then the error is nil.
C10_FewerOnlyWhenExhausted ==
  (RandomReturned /\ Len(titles) < randomN) =>
    /\ lastCall = "empty" \/ requests = AttemptFactor * randomN
    /\ err = "nil"

\* C10, amended: fewer than n titles are returned only after an empty batch
\* or at the attempt bound, with a nil error, or when a request failed, with
\* that error; the error is non-nil exactly when a request failed.
C10_FewerOrFailed ==
  /\ (RandomReturned /\ Len(titles) < randomN) =>
       \/ lastCall = "failed" /\ err # "nil"
       \/ /\ lastCall = "empty" \/ requests = AttemptFactor * randomN
          /\ lastCall # "failed"
          /\ err = "nil"
  /\ RandomReturned => (err # "nil" <=> lastCall = "failed")

\* The second request was answered with status 500: the one title collected
\* so far is returned together with the error.
C10_Witness ==
  /\ RandomReturned /\ randomN = 2
  /\ Len(titles) = 1 /\ requests = 2
  /\ lastCall = "failed" /\ err = "API returned status"

\* ------------------------------------------------ properties of docx.Build
\* The positions of a Build call at which the paragraphs and the output path
\* have been computed.
Packaging == {"create", "addfile", "zwclose", "fclose"}

\* C11: title sanitization is idempotent: for every title x that Build is
\* called with, safeFilename(safeFilename(x)) = safeFilename(x).
C11_Idempotent ==
  \A w \in Workers :
    pc[w] \in Packaging =>
      safeFilename(safeFilename(build[w].title)) = safeFilename(build[w].title)

\* C12: a non-empty title with at least one character outside the unsafe set
\* gets a non-empty file name, and no file name holds a path separator.
C12_NonEmptyNoSeparator ==
  \A w \in Workers :
    pc[w] \in Packaging =>
      LET x    == build[w].title
          name == safeFilename(x)
      IN  /\ (\E i \in 1..Len(x) : x[i] \notin UnsafeChars) => name # <<>>
          /\ \A i \in 1..Len(name) : name[i] \notin {"/", "\\"}
          /\ build[w].outPath = name \o DocxExt

\* The reference of C13: the content is cut at every maximal run of two or
\* more newlines, each chunk is trimmed, the empty chunks are dropped and
\* every newline left becomes one space.
NewlineRun(s) ==
  Cardinality({n \in 1..Len(s) : \A j \in 1..n : s[j] = "\n"})

RECURSIVE RefChunks(_, _)
RefChunks(s, cur) ==
  IF s = <<>> THEN <<cur>>
  ELSE IF NewlineRun(s) >= 2
         THEN <<cur>> \o RefChunks(SubSeq(s, NewlineRun(s) + 1, Len(s)), <<>>)
         ELSE RefChunks(Tail(s), Append(cur, Head(s)))

RefTrim(c) ==
  LET ink == {i \in 1..Len(c) : c[i] \notin {" ", "\n", "\t", "\r"}}
  IN  IF ink = {} THEN <<>>
      ELSE LET lo == CHOOSE i \in ink : \A j \in ink : i <= j
               hi == CHOOSE i \in ink : \A j \in ink : j <= i
           IN  [k \in 1..(hi - lo + 1) |-> c[lo + k - 1]]

RefParagraphs(content) ==
  LET chunks  == RefChunks(content, <<>>)
      trimmed == [i \in 1..Len(chunks) |-> RefTrim(chunks[i])]
      kept    == SelectSeq(trimmed, LAMBDA c : c # <<>>)
  IN  [i \in 1..Len(kept) |->
         [j \in 1..Len(kept[i]) |-> IF kept[i][j] = "\n" THEN " " ELSE kept[i][j]]]

\* C13: the paragraphs Build computes are those of the reference, for newline
\* runs of every length; every paragraph is non-empty and holds no newline;
\* the example content yields A, B C, D.
C13_ParagraphsAsReference ==
  \A w \in Workers :
    pc[w] \in Packaging =>
      LET ps == build[w].bodyParagraphs
      IN  /\ ps = RefParagraphs(build[w].content)
          /\ \A i \in 1..Len(ps) :
               ps[i] # <<>> /\ \A j \in 1..Len(ps[i]) : ps[i][j] # "\n"
          /\ build[w].content = ExampleContent =>
               ps = << <<"A">>, <<"B", " ", "C">>, <<"D">> >>

\* A run of three newlines, and a run of four, were split.
C13_Witness ==
  \E w \in Workers :
    /\ pc[w] = "create"
    /\ \/ /\ build[w].content = <<"x", "\n", "\n", "\n", "x">>
          /\ build[w].bodyParagraphs = << <<"x">>, <<"x">> >>
       \/ /\ build[w].content = ExampleContent
          /\ Len(build[w].bodyParagraphs) = 3

\* Reading a document back: the markup tokens, and the text between them with
\* the character references resolved.
Markup == {XMLDecl, DocOpen, BodyOpen, HeadingOpen, ParaOpen, BlockClose,
           SectPr, DocClose}
Unescape(c) ==
  CASE c = "&amp;" -> "&"
    [] c = "&lt;"  -> "<"
    [] c = "&gt;"  -> ">"
    [] c = "&#34;" -> "\""
    [] c = "&#39;" -> "'"
    [] c = "&#x9;" -> "\t"
    [] c = "&#xA;" -> "\n"
    [] c = "&#xD;" -> "\r"
    [] OTHER       -> c
MarkupOf(doc) == SelectSeq(doc, LAMBDA c : c \in Markup)
StrippedText(doc) ==
  LET text == SelectSeq(doc, LAMBDA c : c \notin Markup)
  IN  [i \in 1..Len(text) |-> Unescape(text[i])]

RECURSIVE Concat(_)
Concat(ss) == IF ss = <<>> THEN <<>> ELSE Head(ss) \o Concat(Tail(ss))

RECURSIVE ParagraphMarkup(_)
ParagraphMarkup(n) ==
  IF n = 0 THEN <<>> ELSE <<ParaOpen, BlockClose>> \o ParagraphMarkup(n - 1)

\* C14: when Build has returned without an error, the file holds exactly the
\* three entries, in order, and the central directory; the document is one
\* heading block, one paragraph block per paragraph, then the section
\* declaration; and its text without the markup is the title followed by the
\* paragraphs.
C14_ArchiveContents ==
  \A w \in Workers :
    (pc[w] = "buildret" /\ build[w].err = "nil") =>
      LET file == disk[build[w].outPath]
          ps   == build[w].bodyParagraphs
      IN  /\ Len(file) = EntryCount + 1
          /\ \A n \in 1..EntryCount : file[n].name = EntryName(n)
          /\ file[EntryCount + 1].name = "central directory"
          /\ MarkupOf(file[EntryCount].content) =
               <<XMLDecl, DocOpen, BodyOpen, HeadingOpen, BlockClose>>
                 \o ParagraphMarkup(Len(ps)) \o <<SectPr, DocClose>>
          /\ StrippedText(file[EntryCount].content) =
               build[w].title \o Concat(ps)

\* ------------------------------------- properties of the pool's output files
\* C15: after the pool has finished, for every title whose fetch and build
\* succeeded the output directory holds the file named after the sanitized
\* title, also when the service answered with a redirect's target.
C15_FilePerTitle ==
  PoolJoined =>
    \A i \in Indices :
      outcome[i] = "ok" =>
        (safeFilename(Chars(titles[i])) \o DocxExt) \in DOMAIN disk

\* C16: when no write failed, every output file is, after the pool has
\* finished, the complete archive of one of the Build calls that wrote to it,
\* whatever the interleaving of the workers.
C16_LastWriterWins ==
  (PoolJoined /\ faulted = {}) =>
    \A f \in DOMAIN disk :
      \E b \in built : b.path = f /\ b.archive = disk[f]

\* C18: a title whose Build met a failure while creating the file or writing
\* the archive, the writes at close included, is reported as failed.
C18_IOFailureIsReported ==
  PoolJoined => \A i \in faulted : outcome[i] = "fail"

\* ------------------------------------------------ properties of the fetch
\* C17: FetchArticle sends one request per call and never a second one for
\* the same queued title; a worker is in the packager only after an answer
\* with a page (transport succeeded, status 200, body parsed, page map not
\* empty), whose title is the article's; after any other answer the article
\* is the zero Article, the title has failed with a fetch error and the
\* worker is on its way to the failure list, not in the packager.
C17_SingleAttempt ==
  /\ \A i \in 1..Len(sent) : sent[i] <= 1
  /\ \A w \in Workers :
       /\ pc[w] = "do" => sent[idx[w]] = 1
       /\ pc[w] = "build" =>
            /\ resp[w] = "page"
            /\ article[w] \in {title[w], Redirected}
            /\ sent[idx[w]] = 1
       /\ resp[w] = "error" =>
            /\ pc[w] = "lock"
            /\ article[w] = ""
            /\ perr[w] = "fetch"
            /\ outcome[idx[w]] = "fail"
            /\ sent[idx[w]] = 1
  /\ PoolJoined =>
       \A i \in 1..Len(sent) :
         sent[i] = IF ValidURL(langPrefix) /\ taken[i] = 1 THEN 1 ELSE 0

\* A worker got an answer without a page for the second title while the
\* other worker is in the packager.
C17_Witness ==
  \E w \in Workers, v \in Workers :
    /\ pc[w] = "lock" /\ resp[w] = "error"
    /\ pc[v] = "build" /\ sent = <<1, 1>>

\* ------------------------------------------------- properties of the pool
\* The positions of a worker between mu.Lock() and mu.Unlock().
Critical == {"append", "store", "unlock"}

\* C19: the failure list is written only by the worker that holds the mutex;
\* at most one worker is between Lock and Unlock; no append is lost (the list
\* holds one entry for every failure whose append is done); and main reads
\* the list only when every worker it started has left its loop.
C19_FailuresUnderMutex ==
  /\ [](/\ \A w \in Workers : pc[w] \in Critical => mu = w
        /\ \A w \in Workers, v \in Workers :
             (pc[w] \in Critical /\ pc[v] \in Critical) => w = v
        /\ Len(failed) + Cardinality({w \in Workers : pc[w] \in {"lock", "append", "store"}})
             = NumberOf("fail")
        /\ pc[Main] \in {"report", "done"} =>
             /\ wg = 0
             /\ \A w \in Workers : pc[w] \in {"idle", "exited"})
  /\ [][failed' # failed =>
          \E w \in Workers : mu = w /\ pc[w] = "store" /\ pc'[w] = "unlock"]_vars

\* One worker is writing the list while the other, with a failure of its
\* own, waits for the mutex.
C19_Witness ==
  \E w \in Workers, v \in Workers :
    pc[w] = "store" /\ mu = w /\ pc[v] = "lock" /\ failed = <<>>

\* C20: a worker runs only when the queue holds every title and is closed,
\* and main is never blocked in a send; once closed, the queue stays closed
\* and only loses its head; a worker leaves its loop exactly on the closed,
\* empty queue, where its receive does not block.
C20_QueueFilledAndClosedFirst ==
  /\ [](/\ pc[Main] # "send"
        /\ (\E w \in Workers : pc[w] # "idle") => closed
        /\ (pc[Main] = "spawn" /\ spawned = 0) => (closed /\ titlesCh = titles)
        /\ \A w \in Workers :
             (pc[w] = "range" /\ titlesCh = <<>>) => ENABLED RangeTitles(w))
  /\ [][/\ closed =>
             /\ closed'
             /\ \/ titlesCh' = titlesCh
                \/ titlesCh # <<>> /\ titlesCh' = Tail(titlesCh)
        /\ \A w \in Workers :
             /\ (pc[w] = "range" /\ pc'[w] = "exited") => (closed /\ titlesCh = <<>>)
             /\ (pc[w] = "range" /\ titlesCh = <<>> /\ pc'[w] # pc[w]) =>
                  pc'[w] = "exited"]_vars

\* A worker has left its loop on the closed, empty queue while the other is
\* still waiting for an answer.
C20_Witness ==
  \E w \in Workers, v \in Workers :
    pc[w] = "exited" /\ pc[v] = "do" /\ closed /\ titlesCh = <<>>
      /\ Len(titles) = MaxTitles

====
